---- MODULE Spec2Model ----
(***************************************************************************)
(* A model of the drawing layer of FGAme: the interned Color value type    *)
(* (draw/color.py), the Shape/Drawable abstraction (draw/base.py) and the  *)
(* texture cache behind Image (draw/image.py).                             *)
(*                                                                         *)
(* Python objects live in heaps (sequences indexed by object identity).    *)
(* Python values that reach Color's constructor are tagged records, so     *)
(* that an int, a str, a tuple and a Color never compare equal, exactly as *)
(* the keys of the Python dict Color._CACHE.                               *)
(***************************************************************************)
EXTENDS Integers, Sequences, FiniteSets, TLC

VARIABLES
    colors,     \* heap of Color objects: identity |-> its four slots
    CACHE,      \* Color._CACHE: key |-> identity of a Color
    last,       \* the call made by the last step
    ret,        \* what that call gave back to its caller
    first,      \* history: 4-channel argument tuple |-> the object its first call returned
    shapes,     \* heap of Shape objects: identity |-> class and slots
    prims,      \* heap of geometric primitives owned by the shapes
    holder,     \* the attribute behind a color_property of some object
    calls,      \* the canvas methods invoked so far, in order
    textures,   \* heap of Texture objects: identity |-> the path decoded
    lru         \* the lru_cache of get_texture, least recently used first

colorVars == <<colors, CACHE, first>>
shapeVars == <<shapes, prims, holder, calls>>
texVars == <<textures, lru>>
vars == <<colors, CACHE, last, ret, first, shapes, prims, holder, calls, textures, lru>>

----------------------------------------------------------------------------
(* Bounds *)

MaxColors == 6          \* Color objects on the heap (5 are pre-seeded)
MaxShapes == 2          \* Shape objects on the heap
MaxDraws == 2           \* canvas calls recorded

----------------------------------------------------------------------------
(* Python values *)

PInt(n) == [int |-> n]
PStr(s) == [str |-> s]          \* s: the sequence of the string's characters
PTup(t) == [tuple |-> t]        \* t: a sequence of Python values
PObj(i) == [color |-> i]        \* a Color object, by identity

IsInt(v) == DOMAIN v = {"int"}
IsStr(v) == DOMAIN v = {"str"}
IsTup(v) == DOMAIN v = {"tuple"}
IsObj(v) == DOMAIN v = {"color"}

\* len(v); -1 stands for the TypeError len() raises on an int
PyLen(v) ==
    IF IsStr(v) THEN Len(v.str)
    ELSE IF IsTup(v) THEN Len(v.tuple)
    ELSE IF IsObj(v) THEN 4
    ELSE -1

\* Color.__iter__ (and the iteration of a tuple or of a str) as a sequence
Items(heap, v) ==
    IF IsStr(v) THEN [i \in 1..Len(v.str) |-> PStr(<<v.str[i]>>)]
    ELSE IF IsTup(v) THEN v.tuple
    ELSE <<heap[v.color].red, heap[v.color].green,
           heap[v.color].blue, heap[v.color].alpha>>

\* Color.__hash__ xors the four slots: a TypeError unless all are ints
ColorHashable(heap, i) ==
    /\ IsInt(heap[i].red) /\ IsInt(heap[i].green)
    /\ IsInt(heap[i].blue) /\ IsInt(heap[i].alpha)

RECURSIVE Hashable(_, _)
Hashable(heap, v) ==
    IF IsTup(v) THEN \A i \in 1..Len(v.tuple) : Hashable(heap, v.tuple[i])
    ELSE IF IsObj(v) THEN ColorHashable(heap, v.color)
    ELSE TRUE

----------------------------------------------------------------------------
(* What a call gives back *)

NoVal == PTup(<<>>)
Returned(i) == [kind |-> "Color", id |-> i, exc |-> "none", val |-> NoVal]
ReturnedNone == [kind |-> "None", id |-> 0, exc |-> "none", val |-> NoVal]
ReturnedValue(v) == [kind |-> "value", id |-> 0, exc |-> "none", val |-> v]
ReturnedShape(i) == [kind |-> "Shape", id |-> i, exc |-> "none", val |-> NoVal]
ReturnedTexture(i) == [kind |-> "Texture", id |-> i, exc |-> "none", val |-> NoVal]
Raised(e) == [kind |-> "raise", id |-> 0, exc |-> e, val |-> NoVal]

----------------------------------------------------------------------------
(* Color.__new__ *)

Put(cache, k, i) == [j \in (DOMAIN cache) \cup {k} |-> IF j = k THEN i ELSE cache[j]]
Del(cache, k) == [j \in (DOMAIN cache) \ {k} |-> cache[j]]

Slots(ch) == [red |-> ch[1], green |-> ch[2], blue |-> ch[3], alpha |-> ch[4]]

\* color_cache[args] = new = object.__new__(cls); new._red, ... = args
Allocate(heap, cache, key) ==
    [heap |-> Append(heap, Slots(Items(heap, key))),
     cache |-> Put(cache, key, Len(heap) + 1),
     ret |-> Returned(Len(heap) + 1)]

\* del cls._CACHE[args]; the method then falls off its end and returns None
Evict(heap, cache, key) ==
    IF key \in DOMAIN cache
    THEN [heap |-> heap, cache |-> Del(cache, key), ret |-> ReturnedNone]
    ELSE [heap |-> heap, cache |-> cache, ret |-> Raised("KeyError")]

Unwrap(args) == IF Len(args) = 1 THEN args[1] ELSE PTup(args)

RECURSIVE ColorNew(_, _, _)
ColorNew(heap, cache, args) ==
    LET key == PTup(args)
        same(r) == [heap |-> heap, cache |-> cache, ret |-> r]
    IN
    IF ~Hashable(heap, key) THEN same(Raised("TypeError"))
    ELSE IF key \in DOMAIN cache THEN same(Returned(cache[key]))
    ELSE LET a == Unwrap(args) IN
         IF PyLen(a) = -1 THEN same(Raised("TypeError"))
         ELSE IF PyLen(a) = 3 THEN
             IF a \in DOMAIN cache THEN same(Returned(cache[a]))
             ELSE IF ~IsTup(a) THEN same(Raised("TypeError"))
             ELSE LET n == ColorNew(heap, cache, a.tuple \o <<PInt(255)>>) IN
                  IF n.ret.kind # "Color" THEN n
                  ELSE [heap |-> n.heap,
                        cache |-> Put(n.cache, a, n.ret.id),
                        ret |-> n.ret]
         ELSE IF PyLen(a) = 4 THEN
             IF a \in DOMAIN cache THEN same(Returned(cache[a]))
             ELSE Allocate(heap, cache, a)
         ELSE Evict(heap, cache, a)

----------------------------------------------------------------------------
(* The named colors seeded when the module is imported *)

Name(s) == PStr(s)
White == Name(<<"w", "h", "i", "t", "e">>)
Black == Name(<<"b", "l", "a", "c", "k">>)
Red == Name(<<"r", "e", "d">>)
Green == Name(<<"g", "r", "e", "e", "n">>)
Blue == Name(<<"b", "l", "u", "e">>)

Ints(s) == [i \in 1..Len(s) |-> PInt(s[i])]

Seeds ==
    << <<White, <<255, 255, 255>> >>, <<Black, <<0, 0, 0>> >>,
       <<Red, <<255, 0, 0>> >>, <<Green, <<0, 255, 0>> >>,
       <<Blue, <<0, 0, 255>> >> >>

\* Color._CACHE.update({('white',): Color(255, 255, 255), ...}): the five
\* constructions run first, then the five names are added
RECURSIVE SeedColors(_)
SeedColors(n) ==
    IF n = 0 THEN [heap |-> <<>>, cache |-> <<>>]
    ELSE LET p == SeedColors(n - 1)
             o == ColorNew(p.heap, p.cache, Ints(Seeds[n][2]))
         IN [heap |-> o.heap, cache |-> o.cache]

SeededChannels(nm) ==
    LET i == CHOOSE j \in 1..Len(Seeds) : Seeds[j][1] = nm
    IN Ints(Seeds[i][2] \o <<255>>)

SeededNames == {Seeds[i][1] : i \in 1..Len(Seeds)}

SeededCache ==
    LET p == SeedColors(Len(Seeds)) IN
    [k \in (DOMAIN p.cache) \cup {PTup(<<nm>>) : nm \in SeededNames} |->
        IF k \in DOMAIN p.cache THEN p.cache[k]
        ELSE p.cache[PTup(SeededChannels(k.tuple[1]))]]

----------------------------------------------------------------------------
(* Inputs *)

Chan == {0, 255}
Tan == Name(<<"t", "a", "n">>)
Gray == Name(<<"g", "r", "a", "y">>)
Yellow == Name(<<"y", "e", "l", "l", "o", "w">>)

Args3 == {Ints(<<r, g, b>>) : r \in {255}, g \in Chan, b \in Chan}
Args4 == {Ints(<<r, g, b, a>>) : r \in {255}, g \in {255}, b \in Chan, a \in {128, 255}}
ArgsTuple == {<<PTup(t)>> : t \in {Ints(<<255, 255, 0>>), Ints(<<255, 255, 0, 128>>)}}
ArgsName == {<<nm>> : nm \in {White, Black, Tan, Gray, Yellow}}
ArgsChars == {Items(<<>>, Gray)}
ArgsColor == {<<PObj(i)>> : i \in 1..MaxColors}
ArgsArity == {<<>>, Ints(<<1, 2>>), Ints(<<1, 2, 3, 4, 5>>), <<PTup(Ints(<<1, 2>>))>>,
              <<PInt(5)>>, <<PTup(<<White>>)>>, <<PTup(<<Gray>>)>>}

ColorArgs == Args3 \cup Args4 \cup ArgsTuple \cup ArgsName \cup ArgsChars
                \cup ArgsArity

----------------------------------------------------------------------------
(* Color.set_red / set_green / set_blue / set_alpha *)

set_red(heap, cache, c, value) ==
    ColorNew(heap, cache, <<value, heap[c].green, heap[c].blue, heap[c].alpha>>)

set_green(heap, cache, c, value) ==
    ColorNew(heap, cache, <<heap[c].red, value, heap[c].blue, heap[c].alpha>>)

set_blue(heap, cache, c, value) ==
    ColorNew(heap, cache, <<heap[c].red, heap[c].green, value, heap[c].alpha>>)

\* set_alpha with the body of set_blue pasted in
set_alpha_pasted(heap, cache, c, value) ==
    ColorNew(heap, cache, <<heap[c].red, heap[c].green, value, heap[c].alpha>>)

set_alpha(heap, cache, c, value) ==
    ColorNew(heap, cache, <<heap[c].red, heap[c].green, heap[c].blue, value>>)

Setters == {"set_red", "set_green", "set_blue", "set_alpha"}

ApplySetter(name, heap, cache, c, value) ==
    IF name = "set_red" THEN set_red(heap, cache, c, value)
    ELSE IF name = "set_green" THEN set_green(heap, cache, c, value)
    ELSE IF name = "set_blue" THEN set_blue(heap, cache, c, value)
    ELSE set_alpha(heap, cache, c, value)

----------------------------------------------------------------------------
(* Color.__getitem__ with an integer key *)

RECURSIVE GetItem(_, _, _)
GetItem(heap, c, key) ==
    IF key = 0 THEN ReturnedValue(heap[c].red)
    ELSE IF key = 1 THEN ReturnedValue(heap[c].green)
    ELSE IF key = 2 THEN ReturnedValue(heap[c].blue)
    ELSE IF key = 3 THEN ReturnedValue(heap[c].alpha)
    ELSE IF key < 0 THEN
        LET k == 4 - key IN
        IF k < 0 THEN Raised("IndexError") ELSE GetItem(heap, c, k)
    ELSE Raised("IndexError")

----------------------------------------------------------------------------
(* Shape and its subclasses (draw/base.py) *)

ShapeClasses == {"Circle", "AABB", "Poly", "Rectangle", "Image"}

\* the class attribute canvas_primitive; Rectangle inherits Poly's
canvas_primitive(cls) ==
    IF cls = "Circle" THEN "circle"
    ELSE IF cls = "AABB" THEN "aabb"
    ELSE IF cls \in {"Poly", "Rectangle"} THEN "poly"
    ELSE "image"

\* 'draw_' + tag
DrawName(tag) ==
    IF tag = "circle" THEN "draw_circle"
    ELSE IF tag = "aabb" THEN "draw_aabb"
    ELSE IF tag = "poly" THEN "draw_poly"
    ELSE "draw_image"

\* the geometric primitive each constructor builds and hands to Shape.__init__
PrimitiveOf(cls) ==
    IF cls = "Circle" THEN "Circle"
    ELSE IF cls \in {"AABB", "Image"} THEN "AABB"
    ELSE "Poly"

\* Shape.__init__: self.color = Color(color); self.line_color = Color(line_color).
\* A None that Color returns is stored as it is (identity 0).
ShapeInit(heap, cache, geometric, color, line_color) ==
    LET c1 == ColorNew(heap, cache, <<color>>)
        c2 == ColorNew(c1.heap, c1.cache, <<line_color>>)
    IN
    IF c1.ret.kind = "raise" THEN c1 @@ [slots |-> <<>>]
    ELSE IF c2.ret.kind = "raise" THEN c2 @@ [slots |-> <<>>]
    ELSE [heap |-> c2.heap, cache |-> c2.cache, ret |-> ReturnedNone,
          slots |-> [geometric |-> geometric, color |-> c1.ret.id,
                     line_color |-> c2.ret.id, line_width |-> 0]]

\* copy.copy(self): the duplicate holds the same slot values, the owned
\* primitive included.  Where hasattr() lets a RecursionError through
\* (Python 3), the lookup of __setstate__ on the still empty duplicate recurses
\* in Shape.__getattr__ and the copy fails; both outcomes are kept.
CopyOutcomes(heap, s) ==
    {[shapes |-> Append(heap, heap[s]), ret |-> ReturnedShape(Len(heap) + 1)],
     [shapes |-> heap, ret |-> Raised("RecursionError")]}

\* Drawable's in-place operations are stubs; any other name falls to
\* Shape.__getattr__, which asks the primitive, which has no such attribute
Invoke(method) ==
    IF method \in {"irotate", "move", "rescale", "transform"}
    THEN Raised("NotImplementedError")
    ELSE Raised("AttributeError")

\* the method each derived transform calls on the duplicate
AppliedBy(op) ==
    IF op = "moved" THEN "move"
    ELSE IF op = "rotate" THEN "irotate"
    ELSE IF op = "rescaled" THEN "scale"
    ELSE "transform"

DerivedDefined == {"moved", "rotate", "rescaled", "transformed"}
DerivedNames == DerivedDefined \cup {"rotated"}
InPlaceNames == {"irotate", "move", "rescale", "transform"}
Canvases == {"screen", "surface"}

----------------------------------------------------------------------------
(* get_texture and its lru_cache (draw/image.py) *)

maxsize == 512

Theta(args) == IF Len(args) >= 2 THEN args[2] ELSE 0
Scale(args) == IF Len(args) >= 3 THEN args[3] ELSE 1

\* position of the entry cached under key, 0 when there is none
Find(cache, key) ==
    IF \E i \in 1..Len(cache) : cache[i].key = key
    THEN CHOOSE i \in 1..Len(cache) : cache[i].key = key
    ELSE 0

\* a hit moves its entry to the most recently used end
Touch(cache, i) ==
    Append(SubSeq(cache, 1, i - 1) \o SubSeq(cache, i + 1, Len(cache)), cache[i])

\* a miss adds its entry, dropping the least recently used one when full
Insert(cache, e) ==
    IF Len(cache) >= maxsize THEN Append(Tail(cache), e) ELSE Append(cache, e)

\* the key is the argument tuple as written at the call: lru_cache does not
\* fill in the defaults
RECURSIVE get_texture(_, _, _)
get_texture(heap, cache, args) ==
    LET i == Find(cache, args) IN
    IF i # 0
    THEN [textures |-> heap, lru |-> Touch(cache, i), ret |-> ReturnedTexture(cache[i].tex)]
    ELSE IF Theta(args) = 0 /\ Scale(args) = 1
    THEN [textures |-> Append(heap, args[1]),
          lru |-> Insert(cache, [key |-> args, tex |-> Len(heap) + 1]),
          ret |-> ReturnedTexture(Len(heap) + 1)]
    ELSE LET b == get_texture(heap, cache, <<args[1]>>) IN
         \* Texture has no rotate method
         [textures |-> b.textures, lru |-> b.lru, ret |-> Raised("AttributeError")]

\* the cache once maxsize distinct paths have been requested, path 1 first
WarmTextures == [i \in 1..maxsize |-> i]
WarmCache == [i \in 1..maxsize |-> [key |-> <<i>>, tex |-> i]]

TexturePaths == {1, 600}
TextureArgs ==
    UNION {{<<p>>, <<p, 0, 1>>, <<p, 90>>, <<p, 90, 2>>} : p \in TexturePaths}

----------------------------------------------------------------------------
(* Actions *)

IsChannels(args, n) == Len(args) = n /\ \A i \in 1..n : IsInt(args[i])

Call(op, self, args) == [op |-> op, self |-> self, args |-> args]

Remember(args, r) ==
    IF IsChannels(args, 4) /\ r.kind = "Color" /\ PTup(args) \notin DOMAIN first
    THEN Put(first, PTup(args), r.id)
    ELSE first

\* Color(*args), called by client code
Construct(args) ==
    LET o == ColorNew(colors, CACHE, args) IN
    /\ \A i \in 1..Len(args) : IsObj(args[i]) => args[i].color \in DOMAIN colors
    /\ Len(o.heap) <= MaxColors
    /\ colors' = o.heap
    /\ CACHE' = o.cache
    /\ ret' = o.ret
    /\ last' = Call("Color", 0, args)
    /\ first' = Remember(args, o.ret)
    /\ UNCHANGED <<shapeVars, texVars>>

\* c.set_red(value), c.set_green(value), c.set_blue(value), c.set_alpha(value)
Setter(name, c, value) ==
    LET o == ApplySetter(name, colors, CACHE, c, value) IN
    /\ c \in DOMAIN colors
    /\ Len(o.heap) <= MaxColors
    /\ colors' = o.heap
    /\ CACHE' = o.cache
    /\ ret' = o.ret
    /\ last' = Call(name, c, <<value>>)
    /\ UNCHANGED <<first, shapeVars, texVars>>

\* c[key]
Index(c, key) ==
    /\ c \in DOMAIN colors
    /\ ret' = GetItem(colors, c, key)
    /\ last' = Call("getitem", c, <<PInt(key)>>)
    /\ UNCHANGED <<colorVars, shapeVars, texVars>>

\* Circle(...), AABB(...), Poly(...), Rectangle(...), Image(...) of base.py
NewShape(cls, geom, color, line_color) ==
    IF cls = "Rectangle"
    THEN \* super(Poly, self).__init__(**kwds) passes no geometric
         /\ ret' = Raised("TypeError")
         /\ last' = Call("Shape", 0, <<cls>>)
         /\ UNCHANGED <<colorVars, shapeVars, texVars>>
    ELSE LET o == ShapeInit(colors, CACHE, Len(prims) + 1, color, line_color) IN
         /\ cls = "Image" => color = Black /\ line_color = Black
         /\ \A v \in {color, line_color} : IsObj(v) => v.color \in DOMAIN colors
         /\ Len(o.heap) <= MaxColors
         /\ Len(shapes) < MaxShapes
         /\ colors' = o.heap
         /\ CACHE' = o.cache
         /\ ret' = IF o.ret.kind = "raise" THEN o.ret ELSE ReturnedShape(Len(shapes) + 1)
         /\ last' = Call("Shape", 0, <<cls>>)
         /\ IF o.ret.kind = "raise"
            THEN UNCHANGED <<shapes, prims>>
            ELSE /\ shapes' = Append(shapes, [cls |-> cls] @@ o.slots)
                 /\ prims' = Append(prims, [kind |-> PrimitiveOf(cls), geom |-> geom])
         /\ UNCHANGED <<first, holder, calls, texVars>>

\* the subclass Shape.from_primitive picks by isinstance, in the order
\* circle, polygon, box; "none" for any other object
ShapeClassOf(kind) ==
    IF kind = "Circle" THEN "Circle"
    ELSE IF kind = "Poly" THEN "Poly"
    ELSE IF kind = "AABB" THEN "AABB"
    ELSE "none"

\* Shape.from_primitive(obj, color, line_color): obj is the primitive p that
\* some shape already holds (p > 0), or an object the caller has just built
\* (p = 0).  The new shape wraps obj itself: no copy is made.
FromPrimitive(p, obj, color, line_color) ==
    LET prim == IF p = 0 THEN obj ELSE prims[p]
        cls == ShapeClassOf(prim.kind)
        geometric == IF p = 0 THEN Len(prims) + 1 ELSE p
        o == ShapeInit(colors, CACHE, geometric, color, line_color)
    IN
    /\ p = 0 \/ p \in DOMAIN prims
    /\ last' = Call("from_primitive", 0, <<p>>)
    /\ IF cls = "none"
       THEN /\ ret' = Raised("ValueError")
            /\ UNCHANGED <<colorVars, shapeVars, texVars>>
       ELSE /\ \A v \in {color, line_color} : IsObj(v) => v.color \in DOMAIN colors
            /\ Len(o.heap) <= MaxColors
            /\ Len(shapes) < MaxShapes
            /\ colors' = o.heap
            /\ CACHE' = o.cache
            /\ ret' = IF o.ret.kind = "raise" THEN o.ret
                      ELSE ReturnedShape(Len(shapes) + 1)
            /\ IF o.ret.kind = "raise"
               THEN UNCHANGED <<shapes, prims>>
               ELSE /\ shapes' = Append(shapes, [cls |-> cls] @@ o.slots)
                    /\ prims' = IF p = 0 THEN Append(prims, obj) ELSE prims
            /\ UNCHANGED <<first, holder, calls, texVars>>

\* color_property.fset(obj, value)
PropSet(value) ==
    LET o == ColorNew(colors, CACHE, <<value>>) IN
    /\ IsObj(value) => value.color \in DOMAIN colors
    /\ Len(o.heap) <= MaxColors
    /\ colors' = o.heap
    /\ CACHE' = o.cache
    /\ ret' = IF o.ret.kind = "raise" THEN o.ret ELSE ReturnedNone
    /\ last' = Call("fset", 0, <<value>>)
    /\ holder' = IF o.ret.kind = "raise" THEN holder
                 ELSE [has |-> TRUE, color |-> o.ret.id]
    /\ UNCHANGED <<first, shapes, prims, calls, texVars>>

\* color_property.fset(obj, None): fdel
PropDel ==
    /\ holder' = [has |-> FALSE, color |-> 0]
    /\ ret' = ReturnedNone
    /\ last' = Call("fdel", 0, <<>>)
    /\ UNCHANGED <<colorVars, shapes, prims, calls, texVars>>

\* s.copy()
Copy(s) ==
    /\ s \in DOMAIN shapes
    /\ \E o \in CopyOutcomes(shapes, s) :
        /\ Len(o.shapes) <= MaxShapes
        /\ shapes' = o.shapes
        /\ ret' = o.ret
    /\ last' = Call("copy", s, <<>>)
    /\ UNCHANGED <<colorVars, prims, holder, calls, texVars>>

\* s.moved(..), s.rotate(..), s.rescaled(..), s.transformed(..), s.rotated(..):
\* new = self.copy(); the in-place method on new; return new.  The duplicate
\* is lost with the exception.
Derived(op, s) ==
    /\ s \in DOMAIN shapes
    /\ IF op \in DerivedDefined
       THEN \E o \in CopyOutcomes(shapes, s) :
                ret' = IF o.ret.kind = "raise" THEN o.ret ELSE Invoke(AppliedBy(op))
       ELSE ret' = Invoke(op)
    /\ last' = Call(op, s, <<>>)
    /\ UNCHANGED <<colorVars, shapeVars, texVars>>

\* s.move(..), s.irotate(..), s.rescale(..), s.transform(..)
InPlace(op, s) ==
    /\ s \in DOMAIN shapes
    /\ ret' = Invoke(op)
    /\ last' = Call(op, s, <<>>)
    /\ UNCHANGED <<colorVars, shapeVars, texVars>>

\* s.draw(canvas)
Draw(s, canvas) ==
    /\ s \in DOMAIN shapes
    /\ Len(calls) < MaxDraws
    /\ IF shapes[s].cls = "Image"
       THEN \* self.draw_image(self): looked up on the shape, then on its primitive
            /\ ret' = Raised("AttributeError")
            /\ calls' = calls
       ELSE /\ ret' = ReturnedNone
            /\ calls' = Append(calls, [recv |-> canvas,
                                       method |-> DrawName(canvas_primitive(shapes[s].cls)),
                                       arg |-> s])
    /\ last' = Call("draw", s, <<canvas>>)
    /\ UNCHANGED <<colorVars, shapes, prims, holder, texVars>>

\* get_texture(*args)
GetTexture(args) ==
    LET o == get_texture(textures, lru, args) IN
    /\ textures' = o.textures
    /\ lru' = o.lru
    /\ ret' = o.ret
    /\ last' = Call("get_texture", 0, args)
    /\ UNCHANGED <<colorVars, shapeVars>>

\* Image(path) of image.py: the texture is looked up, then
\* super(AABB, self).__init__(pos=pos, shape=shape) reaches Shape.__init__,
\* which takes neither keyword
ImageOfPath(path) ==
    LET o == get_texture(textures, lru, <<path>>) IN
    /\ textures' = o.textures
    /\ lru' = o.lru
    /\ ret' = Raised("TypeError")
    /\ last' = Call("Image", 0, <<path>>)
    /\ UNCHANGED <<colorVars, shapeVars>>

\* Image(texture) of image.py
ImageOfTexture(t) ==
    /\ t \in DOMAIN textures
    /\ ret' = Raised("TypeError")
    /\ last' = Call("Image", t, <<>>)
    /\ UNCHANGED <<colorVars, shapeVars, texVars>>

Init ==
    /\ colors = SeedColors(Len(Seeds)).heap
    /\ CACHE = SeededCache
    /\ last = Call("import", 0, <<>>)
    /\ ret = ReturnedNone
    /\ first = <<>>
    /\ shapes = <<>>
    /\ prims = <<>>
    /\ holder = [has |-> FALSE, color |-> 0]
    /\ calls = <<>>
    /\ textures = <<>>
    /\ lru = <<>>

NoPrimitive == [kind |-> "none", geom |-> <<>>]
ShapeColors == {Black, PTup(Ints(<<255, 255, 0>>)), PObj(2)}
PropValues == {White, PObj(1), PTup(<<White>>)}

Next ==
    \/ \E args \in ColorArgs : Construct(args)
    \/ \E args \in ArgsColor : Construct(args)
    \/ \E c \in ShapeColors : NewShape("Circle", <<1, 0, 0>>, c, Black)
    \/ \E p \in 1..MaxShapes, c \in ShapeColors : FromPrimitive(p, NoPrimitive, c, Black)
    \/ \E v \in PropValues : PropSet(v)
    \/ PropDel

Spec == Init /\ [][Next]_vars

SetterValues == {PInt(0), PInt(128)}

NextSetters ==
    \/ \E args \in {Ints(<<255, 255, 0, 128>>), <<PObj(1)>>, <<Gray>>} : Construct(args)
    \/ \E name \in Setters, c \in 1..MaxColors, v \in SetterValues : Setter(name, c, v)

SpecSetters == Init /\ [][NextSetters]_vars

IndexKeys == (-6)..6

NextIndex ==
    \/ \E args \in Args4 \cup ArgsName : Construct(args)
    \/ \E c \in 1..MaxColors, key \in IndexKeys : Index(c, key)

SpecIndex == Init /\ [][NextIndex]_vars

Geoms(cls) ==
    IF cls = "Circle" THEN {<<1, 0, 0>>}
    ELSE IF cls = "Poly" THEN {<<0, 0, 1, 0, 0, 1>>}
    ELSE {<<0, 1, 0, 1>>}

Objects ==
    {[kind |-> "Circle", geom |-> <<1, 0, 0>>], [kind |-> "Other", geom |-> <<>>]}

NextShape ==
    \/ \E cls \in ShapeClasses : \E g \in Geoms(cls) : NewShape(cls, g, Black, Black)
    \/ \E p \in 1..MaxShapes, c \in {Black, White} : FromPrimitive(p, NoPrimitive, c, Black)
    \/ \E obj \in Objects : FromPrimitive(0, obj, Black, Black)
    \/ \E s \in 1..MaxShapes : Copy(s)
    \/ \E op \in DerivedNames, s \in 1..MaxShapes : Derived(op, s)
    \/ \E op \in InPlaceNames, s \in 1..MaxShapes : InPlace(op, s)
    \/ \E s \in 1..MaxShapes, canvas \in Canvases : Draw(s, canvas)

SpecShape == Init /\ [][NextShape]_vars

NextTexture ==
    \/ \E args \in TextureArgs : GetTexture(args)
    \/ \E p \in TexturePaths : ImageOfPath(p)
    \/ \E t \in 1..2 : ImageOfTexture(t)

SpecTexture == Init /\ [][NextTexture]_vars

InitWarm ==
    /\ colors = SeedColors(Len(Seeds)).heap
    /\ CACHE = SeededCache
    /\ last = Call("get_texture", 0, <<maxsize>>)
    /\ ret = ReturnedTexture(maxsize)
    /\ first = <<>>
    /\ shapes = <<>>
    /\ prims = <<>>
    /\ holder = [has |-> FALSE, color |-> 0]
    /\ calls = <<>>
    /\ textures = WarmTextures
    /\ lru = WarmCache

SpecTextureWarm == InitWarm /\ [][NextTexture]_vars

----------------------------------------------------------------------------
(* Properties *)

ChannelsOf(c) == Items(colors, PObj(c))

\* C1: no two distinct Color objects hold the same (red, green, blue, alpha)
C1_EqualColorsAreIdentical ==
    \A i, j \in DOMAIN colors : ChannelsOf(i) = ChannelsOf(j) => i = j

\* C2: Color(r, g, b, a) returns the same object on every call, Color(r, g, b)
\* returns the object Color(r, g, b, 255), and a pre-seeded name returns the
\* object of its channels
C2_ConstructionIsCanonical ==
    last.op = "Color" =>
        /\ IsChannels(last.args, 4) =>
              /\ ret.kind = "Color"
              /\ ret.id = first[PTup(last.args)]
              /\ ChannelsOf(ret.id) = last.args
        /\ IsChannels(last.args, 3) =>
              /\ ret.kind = "Color"
              /\ ret = ColorNew(colors, CACHE, last.args \o <<PInt(255)>>).ret
              /\ ChannelsOf(ret.id)[4] = PInt(255)
        /\ (Len(last.args) = 1 /\ last.args[1] \in SeededNames) =>
              /\ ret.kind = "Color"
              /\ ret = ColorNew(colors, CACHE, SeededChannels(last.args[1])).ret

\* C3: the Color cache only grows: every key stays present and keeps its object
C3_CacheOnlyGrows ==
    [][\A k \in DOMAIN CACHE : k \in DOMAIN CACHE' /\ CACHE'[k] = CACHE[k]]_vars

\* an unsupported arity, a single tuple whose length is not 3 or 4, or an
\* unknown name
Malformed(args) ==
    \/ Len(args) \notin {1, 3, 4}
    \/ Len(args) = 1 /\ IsTup(args[1]) /\ Len(args[1].tuple) \notin {3, 4}
    \/ Len(args) = 1 /\ IsStr(args[1]) /\ args[1] \notin SeededNames

\* C4: a malformed construction raises to its caller (whatever the exception
\* is called), returns no value and leaves the cache as it was
C4_MalformedCallsRaise ==
    [][(last'.op = "Color" /\ Malformed(last'.args)) =>
          /\ ret'.kind = "raise"
          /\ CACHE' = CACHE
          /\ colors' = colors]_vars

Replaced(name, ch, v) ==
    IF name = "set_red" THEN <<v, ch[2], ch[3], ch[4]>>
    ELSE IF name = "set_green" THEN <<ch[1], v, ch[3], ch[4]>>
    ELSE IF name = "set_blue" THEN <<ch[1], ch[2], v, ch[4]>>
    ELSE <<ch[1], ch[2], ch[3], v>>

\* C5: a setter returns the canonical Color with the named channel replaced and
\* the other three kept (the object a direct construction returns), leaves the
\* receiver and every other Color as they were, and returns another object
\* than the receiver when the value differs from the old one
C5_SettersReturnCanonical ==
    [][last'.op \in Setters =>
          LET c == last'.self
              old == Items(colors, PObj(c))
              want == Replaced(last'.op, old, last'.args[1])
          IN /\ ret'.kind = "Color"
             /\ Items(colors', PObj(ret'.id)) = want
             /\ CACHE'[PTup(want)] = ret'.id
             /\ ColorNew(colors', CACHE', want) =
                    [heap |-> colors', cache |-> CACHE', ret |-> ret']
             /\ \A i \in DOMAIN colors : colors'[i] = colors[i]
             /\ want # old => ret'.id # c]_vars

\* a setter gave a new object, other than its receiver, with one channel changed
C5_Witness ==
    /\ last.op = "set_alpha"
    /\ ret.kind = "Color"
    /\ ret.id > Len(Seeds)
    /\ ret.id # last.self
    /\ ChannelsOf(ret.id) = Replaced("set_alpha", ChannelsOf(last.self), PInt(128))
    /\ ChannelsOf(last.self)[4] = PInt(255)

\* C6: c[i] is the i-th of [red, green, blue, alpha] for i in 0..3, the
\* (4+i)-th for i in -4..-1, and an IndexError for any other integer
C6_IndexingActsAsSequence ==
    last.op = "getitem" =>
        LET i == last.args[1].int
            ch == ChannelsOf(last.self)
        IN /\ i \in 0..3 => ret = ReturnedValue(ch[i + 1])
           /\ i \in (-4)..(-1) => ret = ReturnedValue(ch[4 + i + 1])
           /\ (i >= 4 \/ i < -4) => ret = Raised("IndexError")

\* C7: moved, rotated, rescaled and transformed return a distinct Shape that
\* owns another primitive object than the receiver's
C7_DerivedReturnsIndependentCopy ==
    last.op \in {"moved", "rotated", "rescaled", "transformed"} =>
        /\ ret.kind = "Shape"
        /\ ret.id # last.self
        /\ shapes[ret.id].geometric # shapes[last.self].geometric

\* C8: draw(canvas) invokes exactly one method, 'draw_' + canvas_primitive, of
\* the canvas passed in, with the shape as its argument
C8_DrawCallsTheCanvasPrimitive ==
    [][last'.op = "draw" =>
          calls' = Append(calls,
                          [recv |-> last'.args[1],
                           method |-> DrawName(canvas_primitive(shapes[last'.self].cls)),
                           arg |-> last'.self])]_vars

IsBase(key) == Theta(key) = 0 /\ Scale(key) = 1

\* C9: the unrotated, unscaled texture of a path has one cache entry and one
\* Texture object, however it is asked for; its file is decoded once
C9_OneBaseTexturePerPath ==
    /\ \A i, j \in DOMAIN lru :
          (IsBase(lru[i].key) /\ IsBase(lru[j].key) /\ lru[i].key[1] = lru[j].key[1])
              => i = j
    /\ \A a, b \in DOMAIN textures : textures[a] = textures[b] => a = b
    /\ (last.op = "get_texture" /\ IsBase(last.args)) =>
          /\ ret.kind = "Texture"
          /\ textures[ret.id] = last.args[1]

Keys(cache) == {cache[i].key : i \in DOMAIN cache}

\* C10: the cache never holds more than maxsize entries; a miss on a full
\* cache evicts exactly the least recently used entry; a hit evicts nothing
\* and makes its entry the most recently used
C10_LruEviction ==
    [][last'.op = "get_texture" =>
          /\ Len(lru') <= maxsize
          /\ IF Find(lru, last'.args) # 0
             THEN lru' = Touch(lru, Find(lru, last'.args))
             ELSE Len(lru) = maxsize => Keys(lru) \ Keys(lru') = {lru[1].key}]_vars

====
